---- MODULE Spec2Model ----
(***************************************************************************)
(* Model of src/Genarator/Phase1/python.py: generate_graph (lines 15-68)   *)
(* and generate_queries (lines 74-165).                                    *)
(*                                                                         *)
(* The two functions share no state; a behaviour is one call of one of     *)
(* them.  Init chooses the call and its arguments.  Every call of the      *)
(* random module is an input of the action that makes it, drawn with \E.   *)
(* The attributes no later line of the program reads (lat, lon, length,    *)
(* average_time, oneway and road_type of an edge, the jitter of            *)
(* query_point) are left out of the records; a speed_profile keeps its 96  *)
(* entries.  Python dicts with optional keys are functions over the     *)
(* set of keys present; <<>> is the empty dict.                            *)
(***************************************************************************)
EXTENDS Integers, Sequences, FiniteSets, TLC

VARIABLES
    pc,          \* position of the running call
    err,         \* the exception that ended the call, "none" while it runs
    num_nodes,   \* generate_graph: argument
    num_edges,   \* generate_graph: argument
    nodes,       \* generate_graph: local list
    edges,       \* generate_graph: local list
    edge_set,    \* generate_graph: local set of (u, v) tuples
    graph_data,  \* the graph document: returned by generate_graph, argument of generate_queries
    num_events,  \* generate_queries: argument
    node_ids,    \* generate_queries: local list
    edge_ids,    \* generate_queries: local list
    all_nodes,   \* generate_queries: local list
    events,      \* generate_queries: local list
    event_id,    \* generate_queries: local counter
    event_type,  \* generate_queries: kind drawn in the current iteration
    event,       \* generate_queries: dict under construction
    cons         \* generate_queries: constraints dict under construction

vars == <<pc, err, num_nodes, num_edges, nodes, edges, edge_set, graph_data,
          num_events, node_ids, edge_ids, all_nodes, events, event_id,
          event_type, event, cons>>

graphVars == <<num_nodes, num_edges, nodes, edges, edge_set>>
queryLocals == <<num_events, node_ids, edge_ids, all_nodes>>

-----------------------------------------------------------------------------
(* Bounds of the model. *)

MaxNodes == 3
MaxEdges == 3
MaxQueryNodes == 2
MaxEvents == 2
MaxLargeNodes == 10

-----------------------------------------------------------------------------
(* Program constants. *)

ROAD_TYPES == <<"primary", "secondary", "tertiary", "local", "expressway">>
POIS == <<"restaurant", "hospital", "pharmacy", "hotel", "atm", "petrol station">>

EventKinds == {"shortest_path", "knn", "modify_edge", "remove_edge"}
Modes == {"distance", "time"}
PatchTypes == {"length", "speed_profile", "road_type"}

-----------------------------------------------------------------------------
(* Helpers. *)

Min(a, b) == IF a < b THEN a ELSE b

Range(s) == {s[i] : i \in DOMAIN s}

EmptyDict == <<>>

HasKey(d, k) == k \in DOMAIN d

\* d[k] = x on a dict
Put(d, k, x) == (k :> x) @@ d

\* random.choice(seq): the elements it can return; empty when seq is empty
\* (random.choice then raises IndexError)
Choice(s) == Range(s)

\* random.sample(population, k): k entries at pairwise distinct positions
Sample(s, k) ==
    { [i \in 1..k |-> s[p[i]]] :
        p \in { q \in [1..k -> DOMAIN s] :
                  \A i, j \in 1..k : i # j => q[i] # q[j] } }

\* [x["id"] for x in seq]
Ids(s) == [i \in DOMAIN s |-> s[i].id]

\* [p for node in all_nodes for p in node["pois"]], as the set of its entries
ValidPois(ns) == UNION { Range(ns[i].pois) : i \in DOMAIN ns }

\* The draws of random.sample(POIS, random.randint(0, 2)) the model takes.
PoisDraws == { <<>>, <<"hospital", "atm">> }

\* The draws of random.sample(ROAD_TYPES, k) the model takes: one per size.
RoadTypeSample(k) == { SubSeq(ROAD_TYPES, 1, k) }

\* The draws of random.randint(3, 10) the model takes: both ends.
KDraws == {3, 10}

\* [round(random.uniform(20, 60), 2) for _ in range(96)]: 96 entries
SpeedProfile == [i \in 1..96 |-> 20]

-----------------------------------------------------------------------------
(* generate_graph *)

\* "id": i of the node appended in iteration i of the node loop
NextNodeId(ns) == Len(ns)

\* an edge id counted from the edge just appended
NextEdgeIdOffByOne(es) == 1000 + Len(es) + 1

\* "id": 1000 + len(edges)
NextEdgeId(es) == 1000 + Len(es)

\* a rejection test that forgets the reversed tuple
RejectedOneDirection(u, v, es) == u = v \/ <<u, v>> \in es

\* if u == v or (u, v) in edge_set or (v, u) in edge_set: continue
Rejected(u, v, es) == u = v \/ <<u, v>> \in es \/ <<v, u>> \in es

\* random.sample(range(num_nodes), 2): the pairs it can return
SamplePair(n) == { <<u, v>> \in (0..(n - 1)) \X (0..(n - 1)) : u # v }

\* a loop test that runs one iteration too many
EdgeLoopTestInclusive(es, n) == Len(es) <= n

\* while len(edges) < num_edges
EdgeLoopTest(es, n) == Len(es) < n

NodeLoop ==
    /\ pc = "g_nodes"
    /\ Len(nodes) < num_nodes
    /\ \E pois \in PoisDraws :
         nodes' = Append(nodes, [id |-> NextNodeId(nodes), pois |-> pois])
    /\ UNCHANGED <<pc, err, num_nodes, num_edges, edges, edge_set, graph_data,
                   queryLocals, events, event_id, event_type, event, cons>>

NodeLoopExit ==
    /\ pc = "g_nodes"
    /\ Len(nodes) >= num_nodes
    /\ pc' = "g_edges"
    /\ edges' = <<>>
    /\ edge_set' = {}
    /\ UNCHANGED <<err, num_nodes, num_edges, nodes, graph_data,
                   queryLocals, events, event_id, event_type, event, cons>>

\* random.sample(range(num_nodes), 2) with fewer than two nodes: ValueError
EdgeSampleError ==
    /\ pc = "g_edges"
    /\ EdgeLoopTest(edges, num_edges)
    /\ num_nodes < 2
    /\ pc' = "g_error"
    /\ err' = "ValueError"
    /\ UNCHANGED <<graphVars, graph_data, queryLocals, events, event_id,
                   event_type, event, cons>>

\* an iteration that ends in `continue`
EdgeReject ==
    /\ pc = "g_edges"
    /\ EdgeLoopTest(edges, num_edges)
    /\ \E p \in SamplePair(num_nodes) : Rejected(p[1], p[2], edge_set)
    /\ UNCHANGED vars

\* an iteration that appends an edge
EdgeAccept ==
    /\ pc = "g_edges"
    /\ EdgeLoopTest(edges, num_edges)
    /\ \E p \in SamplePair(num_nodes) :
         /\ ~Rejected(p[1], p[2], edge_set)
         /\ edge_set' = edge_set \cup {<<p[1], p[2]>>}
         /\ edges' = Append(edges, [id |-> NextEdgeId(edges), u |-> p[1], v |-> p[2],
                                    speed_profile |-> SpeedProfile])
    /\ UNCHANGED <<pc, err, num_nodes, num_edges, nodes, graph_data,
                   queryLocals, events, event_id, event_type, event, cons>>

GraphDocument(n, ns, es) ==
    [meta |-> [id |-> "autogen_graph", nodes |-> n],
     nodes |-> ns,
     edges |-> es]

ReturnGraph ==
    /\ pc = "g_edges"
    /\ ~EdgeLoopTest(edges, num_edges)
    /\ pc' = "g_returned"
    /\ graph_data' = GraphDocument(num_nodes, nodes, edges)
    /\ UNCHANGED <<err, graphVars, queryLocals, events, event_id,
                   event_type, event, cons>>

NextG == NodeLoop \/ NodeLoopExit \/ EdgeSampleError \/ EdgeReject \/ EdgeAccept
           \/ ReturnGraph

InitG ==
    /\ pc = "g_nodes"
    /\ err = "none"
    /\ num_nodes \in 0..MaxNodes
    /\ num_edges \in 0..MaxEdges
    /\ nodes = <<>>
    /\ edges = <<>>
    /\ edge_set = {}
    /\ graph_data = EmptyDict
    /\ num_events = 0
    /\ node_ids = <<>>
    /\ edge_ids = <<>>
    /\ all_nodes = <<>>
    /\ events = <<>>
    /\ event_id = 1
    /\ event_type = "none"
    /\ event = EmptyDict
    /\ cons = EmptyDict

SpecG == InitG /\ [][NextG]_vars /\ WF_vars(NodeLoop) /\ WF_vars(NodeLoopExit)
           /\ WF_vars(EdgeSampleError) /\ WF_vars(EdgeAccept) /\ WF_vars(ReturnGraph)

-----------------------------------------------------------------------------
(* generate_queries *)

\* A graph document generate_graph can return: n nodes, m edges out of node 0.
QueryGraph(n, m) ==
    GraphDocument(n,
        [i \in 1..n |-> [id |-> i - 1,
                         pois |-> IF i = 2 THEN <<"hospital", "atm">> ELSE <<>>]],
        [j \in 1..m |-> [id |-> 1000 + j - 1, u |-> 0, v |-> j,
                         speed_profile |-> SpeedProfile]])

\* event_id += 1
NextEventId(i) == i + 1

\* for _ in range(num_events): every iteration appends one event
DrawKind ==
    /\ pc = "q_loop"
    /\ Len(events) < num_events
    /\ \E kind \in EventKinds : event_type' = kind
    /\ event' = Put(EmptyDict, "id", event_id)
    /\ pc' = "q_build"
    /\ UNCHANGED <<err, graphVars, graph_data, queryLocals, events, event_id, cons>>

\* random.choice on an empty list
RaiseIndexError ==
    /\ pc' = "q_error"
    /\ err' = "IndexError"
    /\ UNCHANGED <<graphVars, graph_data, queryLocals, events, event_id,
                   event_type, event, cons>>

ShortestPath ==
    /\ pc = "q_build"
    /\ event_type = "shortest_path"
    /\ IF node_ids = <<>>
       THEN RaiseIndexError
       ELSE /\ \E source \in Choice(node_ids), target \in Choice(node_ids),
                  mode \in Modes :
                 event' = Put(Put(Put(Put(event, "type", "shortest_path"),
                               "source", source), "target", target), "mode", mode)
            /\ pc' = "q_cons_gate"
            /\ UNCHANGED <<err, graphVars, graph_data, queryLocals, events,
                           event_id, event_type, cons>>

\* if random.random() < 0.6: cons = {}
ConsGate ==
    /\ pc = "q_cons_gate"
    /\ \E pass \in BOOLEAN :
         IF pass THEN cons' = EmptyDict /\ pc' = "q_cons_nodes"
                 ELSE cons' = cons /\ pc' = "q_append"
    /\ UNCHANGED <<err, graphVars, graph_data, queryLocals, events, event_id,
                   event_type, event>>

\* a size test that lets a graph of exactly 5 nodes through
ForbiddenNodesAllowedFrom5(ids) == Len(ids) >= 5

\* ... and len(node_ids) > 5
ForbiddenNodesAllowed(ids) == Len(ids) > 5

\* random.randint(1, min(5, len(node_ids) // 5)): the sizes it can return
ForbiddenNodesSizes(ids) == 1..Min(5, Len(ids) \div 5)

\* random.sample(node_ids, size)
ForbiddenNodesSample(ids, k) == Sample(ids, k)

ConsForbiddenNodes ==
    /\ pc = "q_cons_nodes"
    /\ \E coin \in BOOLEAN :
         IF coin /\ ForbiddenNodesAllowed(node_ids)
         THEN \E k \in ForbiddenNodesSizes(node_ids) :
                \E s \in ForbiddenNodesSample(node_ids, k) :
                   cons' = Put(cons, "forbidden_nodes", s)
         ELSE cons' = cons
    /\ pc' = "q_cons_roads"
    /\ UNCHANGED <<err, graphVars, graph_data, queryLocals, events, event_id,
                   event_type, event>>

ConsForbiddenRoadTypes ==
    /\ pc = "q_cons_roads"
    /\ \E coin \in BOOLEAN :
         IF coin
         THEN \E k \in 1..2 : \E s \in RoadTypeSample(k) :
                cons' = Put(cons, "forbidden_road_types", s)
         ELSE cons' = cons
    /\ pc' = "q_cons_attach"
    /\ UNCHANGED <<err, graphVars, graph_data, queryLocals, events, event_id,
                   event_type, event>>

\* an attachment that skips the `if cons` test
AttachConstraintsAlways(e, c) == Put(e, "constraints", c)

\* if cons: event["constraints"] = cons
AttachConstraints(e, c) ==
    IF DOMAIN c # {} THEN Put(e, "constraints", c) ELSE e

ConsAttach ==
    /\ pc = "q_cons_attach"
    /\ event' = AttachConstraints(event, cons)
    /\ pc' = "q_append"
    /\ UNCHANGED <<err, graphVars, graph_data, queryLocals, events, event_id,
                   event_type, cons>>

Knn ==
    /\ pc = "q_build"
    /\ event_type = "knn"
    /\ IF all_nodes = <<>>
       THEN RaiseIndexError
       ELSE /\ \E k \in KDraws, ref_node \in Choice(all_nodes),
                  poi \in (IF ValidPois(all_nodes) # {} THEN ValidPois(all_nodes)
                                                       ELSE Choice(POIS)) :
                 event' = Put(Put(Put(Put(Put(event, "type", "knn"), "k", k),
                               "poi", poi), "query_point", [near |-> ref_node.id]),
                               "metric", "shortest_path")
            /\ pc' = "q_append"
            /\ UNCHANGED <<err, graphVars, graph_data, queryLocals, events,
                           event_id, event_type, cons>>

\* a patch whose else branch updates one time bin, as its comment suggests
PatchOneBin(patch_type, coin, length, road_type) ==
    CASE patch_type = "length" -> Put(EmptyDict, "length", length)
      [] patch_type = "speed_profile" ->
           Put(EmptyDict, "speed_profile", IF coin THEN SpeedProfile ELSE <<20>>)
      [] patch_type = "road_type" -> Put(EmptyDict, "road_type", road_type)

\* the patch dict built for patch_type; coin is random.random() < 0.3, and
\* both of its branches build the whole profile
Patch(patch_type, coin, length, road_type) ==
    CASE patch_type = "length" -> Put(EmptyDict, "length", length)
      [] patch_type = "speed_profile" ->
           Put(EmptyDict, "speed_profile", IF coin THEN SpeedProfile ELSE SpeedProfile)
      [] patch_type = "road_type" -> Put(EmptyDict, "road_type", road_type)

ModifyEdge ==
    /\ pc = "q_build"
    /\ event_type = "modify_edge"
    /\ IF edge_ids = <<>>
       THEN RaiseIndexError
       ELSE /\ \E edge_id \in Choice(edge_ids), keep \in BOOLEAN :
                 LET e == Put(Put(event, "type", "modify_edge"), "edge_id", edge_id)
                 IN  IF keep
                     THEN \E patch_type \in PatchTypes, coin \in BOOLEAN,
                             length \in {50}, road_type \in Choice(ROAD_TYPES) :
                            event' = Put(e, "patch",
                                         Patch(patch_type, coin, length, road_type))
                     ELSE event' = e
            /\ pc' = "q_append"
            /\ UNCHANGED <<err, graphVars, graph_data, queryLocals, events,
                           event_id, event_type, cons>>

\* a remove_edge branch that applies the removal to the graph document
RemoveEdgeApplied ==
    /\ pc = "q_build"
    /\ event_type = "remove_edge"
    /\ IF edge_ids = <<>>
       THEN RaiseIndexError
       ELSE /\ \E edge_id \in Choice(edge_ids) :
                 /\ event' = Put(Put(event, "type", "remove_edge"), "edge_id", edge_id)
                 /\ graph_data' = [graph_data EXCEPT !.edges =
                        SelectSeq(graph_data.edges, LAMBDA x : x.id # edge_id)]
            /\ pc' = "q_append"
            /\ UNCHANGED <<err, graphVars, queryLocals, events,
                           event_id, event_type, cons>>

RemoveEdge ==
    /\ pc = "q_build"
    /\ event_type = "remove_edge"
    /\ IF edge_ids = <<>>
       THEN RaiseIndexError
       ELSE /\ \E edge_id \in Choice(edge_ids) :
                 event' = Put(Put(event, "type", "remove_edge"), "edge_id", edge_id)
            /\ pc' = "q_append"
            /\ UNCHANGED <<err, graphVars, graph_data, queryLocals, events,
                           event_id, event_type, cons>>

\* events.append(event); event_id += 1.  event, event_type and cons are
\* rebound before they are read again.
AppendEvent ==
    /\ pc = "q_append"
    /\ events' = Append(events, event)
    /\ event_id' = NextEventId(event_id)
    /\ pc' = "q_loop"
    /\ event' = EmptyDict
    /\ event_type' = "none"
    /\ cons' = EmptyDict
    /\ UNCHANGED <<err, graphVars, graph_data, queryLocals>>

ReturnEvents ==
    /\ pc = "q_loop"
    /\ Len(events) >= num_events
    /\ pc' = "q_returned"
    /\ UNCHANGED <<err, graphVars, graph_data, queryLocals, events, event_id,
                   event_type, event, cons>>

NextQ == DrawKind \/ ShortestPath \/ ConsGate \/ ConsForbiddenNodes
           \/ ConsForbiddenRoadTypes \/ ConsAttach \/ Knn \/ ModifyEdge
           \/ RemoveEdge \/ AppendEvent \/ ReturnEvents

\* generate_queries entered with graph g and num_events n, after lines 77-83
QueryEntry(g, n) ==
    /\ pc = "q_loop"
    /\ err = "none"
    /\ num_nodes = 0
    /\ num_edges = 0
    /\ nodes = <<>>
    /\ edges = <<>>
    /\ edge_set = {}
    /\ graph_data = g
    /\ num_events = n
    /\ node_ids = Ids(g.nodes)
    /\ edge_ids = Ids(g.edges)
    /\ all_nodes = g.nodes
    /\ events = <<>>
    /\ event_id = 1
    /\ event_type = "none"
    /\ event = EmptyDict
    /\ cons = EmptyDict

InitQ ==
    \E n \in 0..MaxQueryNodes, ev \in 0..MaxEvents :
      QueryEntry(QueryGraph(n, IF n = 0 THEN 0 ELSE n - 1), ev)

\* one event asked for on a graph of up to MaxLargeNodes nodes
InitLarge ==
    \E n \in 0..MaxLargeNodes :
      QueryEntry(QueryGraph(n, IF n = 0 THEN 0 ELSE n - 1), 1)

Init == InitG \/ InitQ

Next == NextG \/ NextQ

Spec == Init /\ [][Next]_vars

SpecLarge == InitLarge /\ [][NextQ]_vars

-----------------------------------------------------------------------------
(* Properties. *)

GraphPcs == {"g_nodes", "g_edges", "g_returned", "g_error"}
QueryPcs == {"q_loop", "q_build", "q_cons_gate", "q_cons_nodes", "q_cons_roads",
             "q_cons_attach", "q_append", "q_returned", "q_error"}

\* the number of unordered pairs of distinct nodes
MaxPairs(n) == (n * (n - 1)) \div 2

InGraphCall == pc \in GraphPcs
InQueryCall == pc \in QueryPcs

\* no self-loop, and no two entries on the same unordered pair
NoLoopNoDuplicate(es) ==
    /\ \A i \in DOMAIN es : es[i].u # es[i].v
    /\ \A i, j \in DOMAIN es :
         i # j => {es[i].u, es[i].v} # {es[j].u, es[j].v}

\* the events built so far: the appended ones and the one under construction
EventsSoFar == Range(events) \cup (IF HasKey(event, "type") THEN {event} ELSE {})

\* num_edges can be reached with distinct unordered pairs of num_nodes nodes
Feasible == num_nodes >= 2 /\ num_edges <= MaxPairs(num_nodes)

\* C1: in every state of the edge loop and in the returned graph, no edge has
\* u = v and no two edges share an unordered pair {u, v}.
C1_EdgeUniqueness ==
    InGraphCall =>
      /\ NoLoopNoDuplicate(edges)
      /\ pc = "g_returned" => NoLoopNoDuplicate(graph_data.edges)

\* C1 witness: the returned graph holds all three pairs of three nodes.
C1_Witness ==
    /\ pc = "g_returned"
    /\ num_nodes = 3
    /\ Len(graph_data.edges) = 3

\* C2: with num_edges above num_nodes*(num_nodes-1)/2, or num_nodes < 2,
\* generate_graph ends with InvalidParameter before any node or edge is built,
\* and never returns a graph.
C2_FailsFast ==
    (InGraphCall /\ (num_nodes < 2 \/ num_edges > MaxPairs(num_nodes))) =>
      /\ nodes = <<>>
      /\ edges = <<>>
      /\ pc # "g_returned"
      /\ pc = "g_error" => err = "InvalidParameter"

\* C3: a returned graph has node ids 0..num_nodes-1 and edge ids
\* 1000..1000+num_edges-1 in list order; the returned events have ids
\* 1..num_events in list order.
C3_IdDensity ==
    /\ pc = "g_returned" =>
         /\ Ids(graph_data.nodes) = [i \in 1..num_nodes |-> i - 1]
         /\ Ids(graph_data.edges) = [j \in 1..num_edges |-> 1000 + j - 1]
    /\ pc = "q_returned" =>
         Ids(events) = [i \in 1..num_events |-> i]

\* C3 witness: a returned stream of two events of different kinds, on a graph
\* whose edge list is not empty.
C3_Witness ==
    /\ pc = "q_returned"
    /\ Len(events) = 2
    /\ events[1].type # events[2].type
    /\ Len(graph_data.edges) >= 1

\* C4: when generate_queries fails because the drawn kind needs a node or an
\* edge the graph does not have, the error is EmptyGraph.
C4_EmptyGraphError ==
    pc = "q_error" => err = "EmptyGraph"

\* C5: whenever forbidden_nodes is present, its size is between 1 and
\* min(5, num_nodes // 5), its entries are pairwise distinct node ids of the
\* graph, and the graph has more than 5 nodes.
C5_ForbiddenNodesBound ==
    InQueryCall =>
      \A e \in EventsSoFar :
        (HasKey(e, "constraints") /\ HasKey(e.constraints, "forbidden_nodes")) =>
          LET fn == e.constraints.forbidden_nodes
              n  == Len(graph_data.nodes)
          IN  /\ e.type = "shortest_path"
              /\ n > 5
              /\ Len(fn) >= 1
              /\ Len(fn) <= Min(5, n \div 5)
              /\ \A i, j \in DOMAIN fn : i # j => fn[i] # fn[j]
              /\ Range(fn) \subseteq Range(Ids(graph_data.nodes))

\* C5 witness: an appended event forbids two nodes.
C5_Witness ==
    /\ pc = "q_returned"
    /\ \E i \in DOMAIN events :
         /\ HasKey(events[i], "constraints")
         /\ HasKey(events[i].constraints, "forbidden_nodes")
         /\ Len(events[i].constraints.forbidden_nodes) = 2

\* a constraints value is a non-empty dict over the two constraint keys
ConstraintsNonEmpty ==
    InQueryCall =>
      \A e \in EventsSoFar :
        HasKey(e, "constraints") =>
          /\ e.type = "shortest_path"
          /\ DOMAIN e.constraints # {}
          /\ DOMAIN e.constraints \subseteq {"forbidden_nodes", "forbidden_road_types"}

\* the step taken when the gate passed and neither sub-attempt attached a key
\* leaves the event without a constraints key
EmptyConstraintsOmitted ==
    (pc = "q_cons_attach" /\ DOMAIN cons = {}) =>
      (pc' = "q_append" /\ ~HasKey(event', "constraints"))

\* C6: no event carries an empty constraints object, and when the gate passes
\* but nothing is attached the constraints key is omitted.
C6_NoEmptyConstraints ==
    []ConstraintsNonEmpty /\ [][EmptyConstraintsOmitted]_vars

\* C6 witness: a shortest_path event is ready to be appended with no
\* constraints key after the gate passed (cons was bound by this iteration's
\* cons = {} and is empty).
C6_Witness ==
    /\ pc = "q_cons_attach"
    /\ DOMAIN cons = {}
    /\ event.type = "shortest_path"
    /\ Len(events) = 1

C8_GraphUnchanged ==
    [][InQueryCall =>
         /\ graph_data' = graph_data
         /\ node_ids' = node_ids
         /\ edge_ids' = edge_ids
         /\ all_nodes' = all_nodes]_vars

\* C8 witness: a remove_edge event is followed by a later event on the same
\* edge id, and that edge is still in the graph document.
C8_Witness ==
    /\ pc = "q_returned"
    /\ Len(events) = 2
    /\ events[1].type = "remove_edge"
    /\ events[2].type \in {"modify_edge", "remove_edge"}
    /\ events[2].edge_id = events[1].edge_id
    /\ events[1].edge_id \in Range(Ids(graph_data.edges))

\* C9 as stated: for num_nodes > 0 and num_edges above the number of pairs,
\* generate_graph neither returns nor stops with an error.
C9_NeverEndsFromOneNode ==
    (InGraphCall /\ num_nodes > 0 /\ num_edges > MaxPairs(num_nodes)) =>
      pc \in {"g_nodes", "g_edges"}

\* C9 amended: for num_nodes >= 2 and num_edges above the number of pairs,
\* generate_graph neither returns nor stops with an error: the edge list never
\* grows past the number of pairs, so the loop test stays true.
C9_NeverEndsFromTwoNodes ==
    (InGraphCall /\ num_nodes >= 2 /\ num_edges > MaxPairs(num_nodes)) =>
      /\ pc \in {"g_nodes", "g_edges"}
      /\ Len(edges) <= MaxPairs(num_nodes)
      /\ Len(edges) < num_edges

\* C9 witness: every pair is used, more edges are asked for, and the loop
\* is still running with every draw rejected.
C9_Witness ==
    /\ pc = "g_edges"
    /\ num_nodes >= 2
    /\ num_edges > MaxPairs(num_nodes)
    /\ Len(edges) = MaxPairs(num_nodes)
    /\ \A p \in SamplePair(num_nodes) : Rejected(p[1], p[2], edge_set)

\* C10: for num_nodes >= 2 and num_edges within the number of pairs, under
\* fair draws generate_graph eventually returns, with exactly num_edges edges;
\* edge_set has as many entries as edges, and neither ever shrinks.
C10_FeasibleTerminates ==
    /\ [](InGraphCall => Cardinality(edge_set) = Len(edges))
    /\ [][Len(edges') >= Len(edges) /\ edge_set \subseteq edge_set']_vars
    /\ [](Feasible /\ pc = "g_returned" => Len(graph_data.edges) = num_edges)
    /\ (Feasible ~> pc = "g_returned")

\* C10 witness: a feasible call on three nodes has returned two edges.
C10_Witness ==
    /\ pc = "g_returned"
    /\ num_nodes = 3
    /\ num_edges = 2
    /\ Cardinality(edge_set) = 2
    /\ Len(graph_data.edges) = 2

====
